---- MODULE Spec2Model ----
(***************************************************************************)
(* Model of the sinsacord Manager (node pool, session registry, voice      *)
(* credential merge) and Player (per-guild session control protocol).      *)
(*                                                                         *)
(* Conventions.  Strings of the program are TLA+ strings; Spelling gives   *)
(* the characters of each one so that the /^\d+$/ tests are computed.      *)
(* null/undefined of a string-valued slot is the atom Null.  Gains are in  *)
(* hundredths (0.15 is 15), CPU load in thousandths of a core.             *)
(* The Node class and the Queue class are collaborators whose source is    *)
(* not part of the two files; what the model needs of them (send,          *)
(* makeRequest, connection events, statistics, totalSize, push) is taken   *)
(* from the design document.                                               *)
(***************************************************************************)
EXTENDS Integers, Sequences, FiniteSets, TLC

VARIABLES nodes, connected, calls, cpu, players, resolving, call, out

vars == <<nodes, connected, calls, cpu, players, resolving, call, out>>

(***************************************************************************)
(* Values                                                                  *)
(***************************************************************************)
Null == "null"

G123 == "123"

G456 == "456"

Guilds == {G123, G456}

BadGuild == "abc"

Channels == {"7", "8"}

NodeIds == {"A", "B", "C"}

ClientId == "1"

OtherUser == "2"

SessionIds == {"s1", "s2"}

Digits == {"0", "1", "2", "3", "4", "5", "6", "7", "8", "9"}

\* The characters of every string the model hands to a /^\d+$/ test.
Spelling ==
  [s \in Guilds \cup {BadGuild} \cup Channels \cup {ClientId, OtherUser, ""} |->
     CASE s = "123" -> <<"1", "2", "3">>
       [] s = "456" -> <<"4", "5", "6">>
       [] s = "abc" -> <<"a", "b", "c">>
       [] s = "7" -> <<"7">>
       [] s = "8" -> <<"8">>
       [] s = "1" -> <<"1">>
       [] s = "2" -> <<"2">>
       [] OTHER -> <<>>]

\* /^\d+$/.test(s)
IsDigits(s) ==
  LET cs == Spelling[s]
  IN  Len(cs) > 0 /\ \A i \in 1..Len(cs) : cs[i] \in Digits

(***************************************************************************)
(* Bounds of the model                                                     *)
(***************************************************************************)
MaxCalls == 2

MaxQueue == 2

MaxEQArgs == 2

(***************************************************************************)
(* Program constants                                                       *)
(***************************************************************************)
BandCount == 15

InitBandCount == 4

InitGain == 15

DefaultVolume == 100

MaxVolume == 1000

REQUIRED_KEYS == {"event", "guildId", "op", "sessionId"}

(***************************************************************************)
(* Effects of one call: operations sent to a Node, gateway payloads, and   *)
(* events emitted on the Manager.                                          *)
(***************************************************************************)
\* node.send(payload): fire-and-forget write on the Node's persistent channel.
NodeSend(n, payload) == [kind |-> "node", node |-> n, op |-> payload.op, payload |-> payload]

\* manager.options.send(guild, {op: 4, d: {...}})
GatewaySend(g, channel, mute, deaf) ==
  [kind |-> "gateway", id |-> g, op |-> 4, guild_id |-> g, channel_id |-> channel,
   self_mute |-> mute, self_deaf |-> deaf]

\* manager.emit(name, player, ...args)
Emit(name, g, args) == [kind |-> "event", name |-> name, guild |-> g, args |-> args]

\* this.state = to, written while the state was from.
StateSet(from, to) == [kind |-> "state", from |-> from, to |-> to]

NodeOps(o, opname) == SelectSeq(o, LAMBDA e : e.kind = "node" /\ e.op = opname)

AllNodeOps(o) == SelectSeq(o, LAMBDA e : e.kind = "node")

Events(o, name) == SelectSeq(o, LAMBDA e : e.kind = "event" /\ e.name = name)

GatewayOps(o) == SelectSeq(o, LAMBDA e : e.kind = "gateway")

(***************************************************************************)
(* Node pool and the two selection queries                                 *)
(***************************************************************************)
NoCpu == [present |-> FALSE, systemLoad |-> 0, cores |-> 1]

SystemLoads == {100, 900}

CoreCounts == {1, 2}

CpuValues == {NoCpu} \cup [present : {TRUE}, systemLoad : SystemLoads, cores : CoreCounts]

InPool(n) == \E i \in 1..Len(nodes) : nodes[i] = n

\* Collection.filter((node) => node.connected): keeps insertion order.
ConnectedNodes == SelectSeq(nodes, LAMBDA n : connected[n])

\* a.stats.cpu ? (a.stats.cpu.systemLoad / a.stats.cpu.cores) * 100 : 0
Load(n) == IF cpu[n].present THEN (cpu[n].systemLoad \div cpu[n].cores) * 100 ELSE 0

LoadCompareReversed(a, b) == Load(b) - Load(a)

\* (a, b) => aload - bload
LoadCompare(a, b) == Load(a) - Load(b)

\* (a, b) => b.calls - a.calls
CallsCompare(a, b) == calls[b] - calls[a]

\* Array.prototype.sort is stable: x goes before the first element that the
\* comparator puts strictly after it.
RECURSIVE InsertSorted(_, _, _)
InsertSorted(sorted, x, cmp) ==
  IF sorted = <<>> THEN <<x>>
  ELSE IF cmp[Head(sorted)][x] > 0 THEN <<x>> \o sorted
  ELSE <<Head(sorted)>> \o InsertSorted(Tail(sorted), x, cmp)

RECURSIVE SortBy(_, _)
SortBy(s, cmp) ==
  IF s = <<>> THEN <<>>
  ELSE InsertSorted(SortBy(SubSeq(s, 1, Len(s) - 1), cmp), s[Len(s)], cmp)

leastUsedNode ==
  SortBy(ConnectedNodes, [a \in NodeIds |-> [b \in NodeIds |-> CallsCompare(a, b)]])

leastLoadNodes ==
  SortBy(ConnectedNodes, [a \in NodeIds |-> [b \in NodeIds |-> LoadCompare(a, b)]])

\* Collection.first(): undefined on an empty collection.
First(s) == IF s = <<>> THEN Null ELSE Head(s)

(***************************************************************************)
(* Tracks and the Queue                                                    *)
(***************************************************************************)
ResolvedTracks == {"T1", "T2"}

UnresolvedTracks == {"U1"}

Tracks == ResolvedTracks \cup UnresolvedTracks

\* TrackUtils.isUnresolvedTrack(track)
isUnresolvedTrack(t) == t \in UnresolvedTracks

\* Track.track (the opaque handle) and Track.duration of a resolved track.
TrackData ==
  [t \in ResolvedTracks |->
     IF t = "T1" THEN [track |-> "h1", duration |-> 100000]
     ELSE [track |-> "h2", duration |-> 5]]

\* Track.duration; an UnresolvedTrack carries title, author and duration.
Duration ==
  [t \in Tracks |-> IF t \in ResolvedTracks THEN TrackData[t].duration ELSE 7]

EmptyQueue == [current |-> Null, previous |-> Null, list |-> <<>>]

\* Queue.totalSize: pending entries plus one for a current track.
totalSize(q) == Len(q.list) + (IF q.current # Null THEN 1 ELSE 0)

(***************************************************************************)
(* Typed arguments (typeof checks)                                         *)
(***************************************************************************)
Bool(b) == [type |-> "boolean", v |-> b]

NotBool == [type |-> "string", v |-> FALSE]

(***************************************************************************)
(* The 15-band gain array, as a JS array: indexed slots (arr[i + 1] is     *)
(* index i), and properties for keys that are not array indices.           *)
(***************************************************************************)
Hole == -100000

\* new Array(15).fill(0.0)
NewBands == [arr |-> [i \in 1..BandCount |-> 0], props |-> <<>>]

\* this.bands[band] = gain
ArraySet(b, band, gain) ==
  IF band < 0
    THEN [b EXCEPT !.props = [k \in DOMAIN b.props \cup {band} |->
                                 IF k = band THEN gain ELSE b.props[k]]]
  ELSE IF band < Len(b.arr)
    THEN [b EXCEPT !.arr[band + 1] = gain]
  ELSE [b EXCEPT !.arr = [i \in 1..(band + 1) |->
                            IF i <= Len(b.arr) THEN b.arr[i]
                            ELSE IF i = band + 1 THEN gain ELSE Hole]]

\* for (const { band, gain } of bands) this.bands[band] = gain;
RECURSIVE ApplyBands(_, _)
ApplyBands(b, items) ==
  IF items = <<>> THEN b
  ELSE ApplyBands(ArraySet(b, Head(items).band, Head(items).gain), Tail(items))

\* An EqualizerBand argument; keys is Object.keys(band).
Band(band, gain) == [keys |-> {"band", "gain"}, band |-> band, gain |-> gain]

\* JSON.stringify(Object.keys(band).sort()) === '["band","gain"]'
ValidBandShape(item) == item.keys = {"band", "gain"}

(***************************************************************************)
(* Player methods as functions of the Player object p.  Each yields the    *)
(* Player afterwards, the effects in order, and the error thrown (Null     *)
(* when the call returns).                                                 *)
(***************************************************************************)
Ret(p, o) == [p |-> p, out |-> o, err |-> Null]

Throw(p, o, e) == [p |-> p, out |-> o, err |-> e]

setVolume(p, volume) ==
  LET v == IF volume > MaxVolume THEN MaxVolume ELSE IF volume < 0 THEN 0 ELSE volume
  IN  Ret([p EXCEPT !.volume = v],
          <<NodeSend(p.node, [op |-> "volume", guildId |-> p.guild, volume |-> v])>>)

setEQ(p, items) ==
  IF items = <<>> \/ \E i \in 1..Len(items) : ~ValidBandShape(items[i])
    THEN Throw(p, <<>>, "RangeError: Bands must be a non-empty object array")
  ELSE LET b == ApplyBands(p.bands, items)
       IN  Ret([p EXCEPT !.bands = b],
               <<NodeSend(p.node, [op |-> "equalizer", guildId |-> p.guild,
                                   bands |-> b.arr])>>)

clearEQ(p) ==
  Ret([p EXCEPT !.bands = NewBands],
      <<NodeSend(p.node, [op |-> "equalizer", guildId |-> p.guild,
                          bands |-> NewBands.arr])>>)

\* As pause, but without the test of the queue's totalSize.
pauseOnEmptyQueue(p, flag) ==
  IF flag.type # "boolean"
    THEN Throw(p, <<>>, "RangeError: Pause can only be true or false")
  ELSE IF p.paused = flag.v THEN Ret(p, <<>>)
  ELSE Ret([p EXCEPT !.playing = ~flag.v, !.paused = flag.v],
           <<NodeSend(p.node, [op |-> "pause", guildId |-> p.guild, pause |-> flag.v])>>)

pause(p, flag) ==
  IF flag.type # "boolean"
    THEN Throw(p, <<>>, "RangeError: Pause can only be true or false")
  ELSE IF p.paused = flag.v \/ totalSize(p.queue) = 0 THEN Ret(p, <<>>)
  ELSE Ret([p EXCEPT !.playing = ~flag.v, !.paused = flag.v],
           <<NodeSend(p.node, [op |-> "pause", guildId |-> p.guild, pause |-> flag.v])>>)

connect(p) ==
  IF p.voiceChannel = Null \/ p.voiceChannel = ""
    THEN Throw(p, <<>>, "RangeError: Voice channel ID not set.")
  ELSE Ret([p EXCEPT !.state = "CONNECTED"],
           <<StateSet(p.state, "CONNECTING"),
             GatewaySend(p.guild, p.voiceChannel, p.selfMute, p.selfDeafen),
             StateSet("CONNECTING", "CONNECTED")>>)

\* As disconnect, but without the call of pause(true).
disconnectWithoutPause(p) ==
  IF p.voiceChannel = Null THEN Ret(p, <<>>)
  ELSE Ret([p EXCEPT !.voiceChannel = Null, !.state = "DISCONNECTED"],
           <<StateSet(p.state, "DISCONNECTING"),
             GatewaySend(p.guild, Null, FALSE, FALSE),
             StateSet("DISCONNECTING", "DISCONNECTED")>>)

disconnect(p) ==
  IF p.voiceChannel = Null THEN Ret(p, <<>>)
  ELSE LET paused == pause([p EXCEPT !.state = "DISCONNECTING"], Bool(TRUE))
       IN  Ret([paused.p EXCEPT !.voiceChannel = Null, !.state = "DISCONNECTED"],
               <<StateSet(p.state, "DISCONNECTING")>> \o paused.out \o
               <<GatewaySend(p.guild, Null, FALSE, FALSE),
                 StateSet("DISCONNECTING", "DISCONNECTED")>>)

setTrackRepeatLeavesQueueRepeat(p, repeat) ==
  IF repeat.type # "boolean"
    THEN Throw(p, <<>>, "TypeError: Repeat can only be true or false")
  ELSE IF repeat.v THEN Ret([p EXCEPT !.trackRepeat = TRUE], <<>>)
  ELSE Ret([p EXCEPT !.trackRepeat = FALSE, !.queueRepeat = FALSE], <<>>)

setTrackRepeat(p, repeat) ==
  IF repeat.type # "boolean"
    THEN Throw(p, <<>>, "TypeError: Repeat can only be true or false")
  ELSE IF repeat.v THEN Ret([p EXCEPT !.trackRepeat = TRUE, !.queueRepeat = FALSE], <<>>)
  ELSE Ret([p EXCEPT !.trackRepeat = FALSE, !.queueRepeat = FALSE], <<>>)

setQueueRepeat(p, repeat) ==
  IF repeat.type # "boolean"
    THEN Throw(p, <<>>, "TypeError: Repeat can only be true or false")
  ELSE IF repeat.v THEN Ret([p EXCEPT !.trackRepeat = FALSE, !.queueRepeat = TRUE], <<>>)
  ELSE Ret([p EXCEPT !.trackRepeat = FALSE, !.queueRepeat = FALSE], <<>>)

\* As destroy, but the destroy operation is sent before the disconnect.
destroySendsFirst(p, disconnectFlag) ==
  LET p1 == [p EXCEPT !.state = "DESTROYING"]
      d == IF disconnectFlag THEN disconnect(p1) ELSE Ret(p1, <<>>)
  IN  Ret(d.p,
          <<StateSet(p.state, "DESTROYING"),
            NodeSend(p.node, [op |-> "destroy", guildId |-> p.guild])>> \o d.out \o
          <<Emit("playerDestroy", p.guild, <<>>)>>)

\* destroy(disconnect = true), up to the registry removal done by the action.
destroy(p, disconnectFlag) ==
  LET p1 == [p EXCEPT !.state = "DESTROYING"]
      d == IF disconnectFlag THEN disconnect(p1) ELSE Ret(p1, <<>>)
  IN  Ret(d.p,
          <<StateSet(p.state, "DESTROYING")>> \o d.out \o
          <<NodeSend(p.node, [op |-> "destroy", guildId |-> p.guild]),
            Emit("playerDestroy", p.guild, <<>>)>>)

\* As stop, but the pending entries are removed before the length is tested.
stopSplicesBeforeTest(p, amount) ==
  LET n == IF amount = <<>> THEN 0 ELSE amount[1]
      list == p.queue.list
      p1 == [p EXCEPT !.queue.list =
               IF n > 1 THEN SubSeq(list, n, Len(list)) ELSE list]
  IN  IF n > 1 /\ n > Len(list)
        THEN Throw(p1, <<>>, "RangeError: Cannot skip more than the queue length.")
      ELSE Ret(p1, <<NodeSend(p.node, [op |-> "stop", guildId |-> p.guild])>>)

\* stop(amount?): amount is <<>> when absent, <<n>> for the number n.
\* queue.splice(0, amount - 1) drops the first amount - 1 pending entries.
stop(p, amount) ==
  LET n == IF amount = <<>> THEN 0 ELSE amount[1]
      list == p.queue.list
  IN  IF amount # <<>> /\ n > 1 /\ n > Len(list)
        THEN Throw(p, <<>>, "RangeError: Cannot skip more than the queue length.")
      ELSE Ret([p EXCEPT !.queue.list =
                  IF amount # <<>> /\ n > 1 THEN SubSeq(list, n, Len(list)) ELSE list],
               <<NodeSend(p.node, [op |-> "stop", guildId |-> p.guild])>>)

\* Number(position): a number, or NaN.
Num(v) == [nan |-> FALSE, v |-> v]

NaN == [nan |-> TRUE, v |-> 0]

Min(a, b) == IF a < b THEN a ELSE b

Max(a, b) == IF a > b THEN a ELSE b

\* As seek, but the position is stored and sent as given.
seekUnclamped(p, position) ==
  IF p.queue.current = Null THEN Ret(p, <<>>)
  ELSE IF position.nan THEN Throw(p, <<>>, "RangeError: Position must be a number.")
  ELSE Ret([p EXCEPT !.position = position.v],
           <<NodeSend(p.node, [op |-> "seek", guildId |-> p.guild, position |-> position.v])>>)

\* seek(position)
seek(p, position) ==
  IF p.queue.current = Null THEN Ret(p, <<>>)
  ELSE IF position.nan THEN Throw(p, <<>>, "RangeError: Position must be a number.")
  ELSE LET duration == Duration[p.queue.current]
           pos == IF position.v < 0 \/ position.v > duration
                    THEN Max(Min(position.v, duration), 0)
                  ELSE position.v
       IN  Ret([p EXCEPT !.position = pos],
               <<NodeSend(p.node, [op |-> "seek", guildId |-> p.guild, position |-> pos])>>)

\* A typeof-checked channel argument.
Str(s) == [type |-> "string", v |-> s]

NotStr == [type |-> "number", v |-> Null]

\* setVoiceChannel(channel): the channel is stored before connect() tests it.
setVoiceChannel(p, channel) ==
  IF channel.type # "string"
    THEN Throw(p, <<>>, "TypeError: Channel must be a non-empty string.")
  ELSE connect([p EXCEPT !.voiceChannel = channel.v])

(***************************************************************************)
(* play: the part up to the first await, and the part after it.  A result  *)
(* with wait = TRUE is suspended on TrackUtils.getClosestTrack.            *)
(***************************************************************************)
Undefined == "undefined"

\* A PlayOptions object with startTime, endTime and noReplace.
PlayOpts == "PlayOptions"

NoOpts == "{}"

\* TrackUtils.validate(optionsOrTrack)
validate(arg) == arg \in Tracks

PlayRet(p, o, e, w) == [p |-> p, out |-> o, err |-> e, wait |-> w]

\* As PlaySend, but to the least-loaded connected Node instead of the Player's.
PlaySendToLeastLoaded(p, finalOptions) ==
  NodeSend(First(leastLoadNodes), [op |-> "play", guildId |-> p.guild,
                                   track |-> TrackData[p.queue.current].track,
                                   options |-> finalOptions])

\* The play operation for the (resolved) current track.
PlaySend(p, finalOptions) ==
  NodeSend(p.node, [op |-> "play", guildId |-> p.guild,
                    track |-> TrackData[p.queue.current].track,
                    options |-> finalOptions])

\* As playEnter, but the former current track is not kept as previous.
playEnterKeepsPrevious(p, arg, finalOptions) ==
  LET q == p.queue
      q1 == IF arg # Undefined /\ validate(arg) THEN [q EXCEPT !.current = arg] ELSE q
      p1 == [p EXCEPT !.queue = q1]
  IN  IF q1.current = Null THEN PlayRet(p1, <<>>, "RangeError: No current track.", FALSE)
      ELSE IF isUnresolvedTrack(q1.current) THEN PlayRet(p1, <<>>, Null, TRUE)
      ELSE PlayRet(p1, <<PlaySend(p1, finalOptions)>>, Null, FALSE)

playEnter(p, arg, finalOptions) ==
  LET q == p.queue
      q1 == IF arg # Undefined /\ validate(arg)
              THEN [q EXCEPT !.previous = IF q.current # Null THEN q.current ELSE q.previous,
                             !.current = arg]
              ELSE q
      p1 == [p EXCEPT !.queue = q1]
  IN  IF q1.current = Null THEN PlayRet(p1, <<>>, "RangeError: No current track.", FALSE)
      ELSE IF isUnresolvedTrack(q1.current) THEN PlayRet(p1, <<>>, Null, TRUE)
      ELSE PlayRet(p1, <<PlaySend(p1, finalOptions)>>, Null, FALSE)

\* play(optionsOrTrack): finalOptions is the argument when it has the three keys.
play(p, arg) == playEnter(p, arg, IF arg = PlayOpts THEN PlayOpts ELSE NoOpts)

\* The await returned the resolved track r.
playResolved(p, r, finalOptions) ==
  LET p1 == [p EXCEPT !.queue.current = r]
  IN  PlayRet(p1, <<PlaySend(p1, finalOptions)>>, Null, FALSE)

\* As playRejected, but playback stops whatever the pending queue holds.
playRejectedStops(p) ==
  PlayRet(p, <<Emit("trackError", p.guild, <<p.queue.current>>)>>, Null, FALSE)

\* The await threw: trackError, then play(this.queue[0]) when there is one.
playRejected(p) ==
  LET ev == <<Emit("trackError", p.guild, <<p.queue.current>>)>>
  IN  IF p.queue.list # <<>>
        THEN LET r == play(p, Head(p.queue.list))
             IN  PlayRet(r.p, ev \o r.out, r.err, r.wait)
      ELSE PlayRet(p, ev, Null, FALSE)

(***************************************************************************)
(* Player construction                                                     *)
(***************************************************************************)
Truthy(s) == s # Null /\ s # ""

\* check(options) of Player.ts: the error it throws, or Null.
checkPlayerOptions(o) ==
  IF ~IsDigits(o.guild) THEN "TypeError: guild"
  ELSE IF Truthy(o.textChannel) /\ ~IsDigits(o.textChannel) THEN "TypeError: textChannel"
  ELSE IF Truthy(o.voiceChannel) /\ ~IsDigits(o.voiceChannel) THEN "TypeError: voiceChannel"
  ELSE Null

\* The field initialisers and the assignments of the constructor up to the
\* node selection.
NewPlayer(o, node) ==
  [guild |-> o.guild, node |-> node,
   voiceChannel |-> IF Truthy(o.voiceChannel) THEN o.voiceChannel ELSE Null,
   textChannel |-> IF Truthy(o.textChannel) THEN o.textChannel ELSE Null,
   state |-> "DISCONNECTED", bands |-> NewBands,
   voiceState |-> [op |-> "voiceUpdate", guildId |-> o.guild],
   trackRepeat |-> FALSE, queueRepeat |-> FALSE, position |-> 0,
   playing |-> FALSE, paused |-> FALSE, volume |-> 0,
   queue |-> EmptyQueue, selfMute |-> o.selfMute, selfDeafen |-> o.selfDeafen]

\* As SelectNode, but the fallback is the first Node of the pool, connected or not.
SelectNodeIgnoresConnection(o) ==
  IF o.node # Null /\ InPool(o.node) THEN o.node ELSE First(nodes)

\* this.manager.nodes.get(options.node) ?? this.manager.leastLoadNodes.first()
SelectNode(o) ==
  IF o.node # Null /\ InPool(o.node) THEN o.node ELSE First(leastLoadNodes)

\* new Array(4).fill(null).map((_, i) => ({ band: i, gain: 0.15 }))
InitBands == [i \in 1..InitBandCount |-> Band(i - 1, InitGain)]

\* The constructor after the registry test: the Player built and its effects.
construct(o) ==
  LET e == checkPlayerOptions(o)
      node == SelectNode(o)
  IN  IF e # Null THEN Throw(Null, <<>>, e)
      ELSE IF node = Null THEN Throw(Null, <<>>, "RangeError: No available nodes.")
      ELSE LET v == setVolume(NewPlayer(o, node),
                              IF o.volume = <<>> THEN DefaultVolume ELSE o.volume[1])
               q == setEQ(v.p, InitBands)
           IN  Ret(q.p, <<Emit("playerCreate", o.guild, <<>>)>> \o v.out \o q.out)

(***************************************************************************)
(* Voice-credential merge (Manager.updateVoiceState)                       *)
(***************************************************************************)
\* obj[k] = v on an object with optional keys.
WithKey(f, k, v) == [x \in DOMAIN f \cup {k} |-> IF x = k THEN v ELSE f[x]]

\* A VOICE_SERVER_UPDATE body: token, endpoint, guild_id.
ServerUpdate(g, token) ==
  [keys |-> {"token", "endpoint", "guild_id"}, guild_id |-> g, token |-> token,
   endpoint |-> "ep", user_id |-> Null, session_id |-> Null, channel_id |-> Null]

\* A VOICE_STATE_UPDATE body: session_id, user_id, channel_id, guild_id.
StateUpdate(g, user, session, channel) ==
  [keys |-> {"session_id", "user_id", "channel_id", "guild_id"}, guild_id |-> g,
   token |-> Null, endpoint |-> Null, user_id |-> user, session_id |-> session,
   channel_id |-> channel]

\* Some other gateway body (neither token nor session_id).
OtherUpdate(g) ==
  [keys |-> {"guild_id"}, guild_id |-> g, token |-> Null, endpoint |-> Null,
   user_id |-> Null, session_id |-> Null, channel_id |-> Null]

\* A packet {t, d}; t = Null is a bare VoiceServer / VoiceState (no "t" key).
Packet(t, update) == [t |-> t, d |-> update]

\* if (REQUIRED_KEYS.every((k) => k in player.voiceState)) player.node.send(player.voiceState)
dispatchIfComplete(p) ==
  IF REQUIRED_KEYS \subseteq DOMAIN p.voiceState
    THEN <<NodeSend(p.node, p.voiceState)>>
  ELSE <<>>

\* As ownVoiceState, but an absent channel id leaves the credential record alone.
ownVoiceStateKeepsCredentials(p, update) ==
  IF Truthy(update.channel_id)
    THEN LET p1 == [p EXCEPT !.voiceState = WithKey(p.voiceState, "sessionId", update.session_id),
                             !.voiceChannel = update.channel_id]
         IN  Ret(p1,
                 (IF p.voiceChannel # update.channel_id
                    THEN <<Emit("playerMove", p.guild, <<p.voiceChannel, update.channel_id>>)>>
                  ELSE <<>>) \o dispatchIfComplete(p1))
  ELSE LET paused == pause([p EXCEPT !.voiceChannel = Null], Bool(TRUE))
       IN  Ret(paused.p,
               <<Emit("playerDisconnect", p.guild, <<p.voiceChannel>>)>> \o paused.out \o
               dispatchIfComplete(paused.p))

\* The voice-state branch for the bot's own user.
ownVoiceState(p, update) ==
  IF Truthy(update.channel_id)
    THEN LET p1 == [p EXCEPT !.voiceState = WithKey(p.voiceState, "sessionId", update.session_id),
                             !.voiceChannel = update.channel_id]
         IN  Ret(p1,
                 (IF p.voiceChannel # update.channel_id
                    THEN <<Emit("playerMove", p.guild, <<p.voiceChannel, update.channel_id>>)>>
                  ELSE <<>>) \o dispatchIfComplete(p1))
  ELSE LET paused == pause([p EXCEPT !.voiceChannel = Null, !.voiceState = <<>>], Bool(TRUE))
       IN  Ret(paused.p,
               <<Emit("playerDisconnect", p.guild, <<p.voiceChannel>>)>> \o paused.out \o
               dispatchIfComplete(paused.p))

\* As updateVoiceState, but without the test of the user id.
updateVoiceStateAnyUser(p, update) ==
  IF "token" \in update.keys
    THEN [accepted |-> TRUE, r |-> Ret([p EXCEPT !.voiceState = WithKey(p.voiceState, "event", update)], <<>>)]
  ELSE [accepted |-> TRUE, r |-> ownVoiceState(p, update)]

\* The handler on the addressed Player; accepted = FALSE when it returned early.
updateVoiceState(p, update) ==
  IF "token" \in update.keys
    THEN [accepted |-> TRUE, r |-> Ret([p EXCEPT !.voiceState = WithKey(p.voiceState, "event", update)], <<>>)]
  ELSE IF update.user_id # ClientId THEN [accepted |-> FALSE, r |-> Ret(p, <<>>)]
  ELSE [accepted |-> TRUE, r |-> ownVoiceState(p, update)]

\* The early returns before a Player is looked up.
routed(data) ==
  /\ ~(data.t # Null /\ data.t \notin {"VOICE_STATE_UPDATE", "VOICE_SERVER_UPDATE"})
  /\ ("token" \in data.d.keys \/ "session_id" \in data.d.keys)
  /\ data.d.guild_id \in DOMAIN players

(***************************************************************************)
(* State machine                                                           *)
(***************************************************************************)
Init ==
  /\ nodes = <<>>
  /\ connected = [n \in NodeIds |-> FALSE]
  /\ calls = [n \in NodeIds |-> 0]
  /\ cpu = [n \in NodeIds |-> NoCpu]
  /\ players = <<>>
  /\ resolving = <<>>
  /\ call = [name |-> "init"]
  /\ out = <<>>

Registered(g) == g \in DOMAIN players

Pinned(n) == \E g \in DOMAIN players : players[g].node = n

Without(f, k) == [x \in DOMAIN f \ {k} |-> f[x]]

\* A Player method that ran on the registered Player of guild g with result r.
Method(g, name, arg, r) ==
  /\ players' = [players EXCEPT ![g] = r.p]
  /\ out' = r.out
  /\ call' = [name |-> name, guild |-> g, arg |-> arg, err |-> r.err]
  /\ UNCHANGED <<nodes, connected, calls, cpu, resolving>>

\* Manager.createNode(options) / new Node(options): a Node object is one
\* identifier; an identifier is built again only when no Player holds the
\* former object.
CreateNode(id) ==
  /\ IF InPool(id) THEN UNCHANGED <<nodes, connected, calls, cpu>>
     ELSE /\ ~Pinned(id)
          /\ nodes' = Append(nodes, id)
          /\ connected' = [connected EXCEPT ![id] = FALSE]
          /\ calls' = [calls EXCEPT ![id] = 0]
          /\ cpu' = [cpu EXCEPT ![id] = NoCpu]
  /\ call' = [name |-> "createNode", node |-> id, existing |-> InPool(id)]
  /\ out' = IF InPool(id) THEN <<>> ELSE <<Emit("nodeCreate", id, <<>>)>>
  /\ UNCHANGED <<players, resolving>>

\* The Node's socket opened.
NodeConnect(n) ==
  /\ InPool(n) /\ ~connected[n]
  /\ connected' = [connected EXCEPT ![n] = TRUE]
  /\ call' = [name |-> "nodeConnect", node |-> n]
  /\ out' = <<Emit("nodeConnect", n, <<>>)>>
  /\ UNCHANGED <<nodes, calls, cpu, players, resolving>>

\* The Node's socket closed.
NodeDisconnect(n) ==
  /\ InPool(n) /\ connected[n]
  /\ connected' = [connected EXCEPT ![n] = FALSE]
  /\ call' = [name |-> "nodeDisconnect", node |-> n]
  /\ out' = <<Emit("nodeDisconnect", n, <<>>)>>
  /\ UNCHANGED <<nodes, calls, cpu, players, resolving>>

\* A stats snapshot arrived on the Node's socket.
NodeStats(n, c) ==
  /\ InPool(n) /\ connected[n]
  /\ cpu' = [cpu EXCEPT ![n] = c]
  /\ call' = [name |-> "nodeStats", node |-> n]
  /\ out' = <<>>
  /\ UNCHANGED <<nodes, connected, calls, players, resolving>>

\* As DestroyNode, but the Players of the destroyed Node move to the
\* least-loaded connected Node that is left.
DestroyNodeReassigns(id) ==
  /\ IF InPool(id)
       THEN /\ connected' = [connected EXCEPT ![id] = FALSE]
            /\ nodes' = SelectSeq(nodes, LAMBDA n : n # id)
            /\ out' = <<Emit("nodeDestroy", id, <<>>)>>
            /\ players' =
                 [g \in DOMAIN players |->
                    IF players[g].node = id
                         /\ SelectSeq(leastLoadNodes, LAMBDA n : n # id) # <<>>
                      THEN [players[g] EXCEPT
                              !.node = Head(SelectSeq(leastLoadNodes, LAMBDA n : n # id))]
                    ELSE players[g]]
     ELSE UNCHANGED <<connected, nodes, players>> /\ out' = <<>>
  /\ call' = [name |-> "destroyNode", node |-> id]
  /\ UNCHANGED <<calls, cpu, resolving>>

\* Manager.destroyNode(identifier)
DestroyNode(id) ==
  /\ IF InPool(id)
       THEN /\ connected' = [connected EXCEPT ![id] = FALSE]
            /\ nodes' = SelectSeq(nodes, LAMBDA n : n # id)
            /\ out' = <<Emit("nodeDestroy", id, <<>>)>>
     ELSE UNCHANGED <<connected, nodes>> /\ out' = <<>>
  /\ call' = [name |-> "destroyNode", node |-> id]
  /\ UNCHANGED <<calls, cpu, players, resolving>>

\* Manager.search(query): the request goes to the first of leastUsedNode;
\* makeRequest counts the call before the response is known.
Search ==
  LET node == First(leastUsedNode)
  IN  /\ node # Null => calls[node] < MaxCalls
      /\ calls' = IF node = Null THEN calls ELSE [calls EXCEPT ![node] = @ + 1]
      /\ \E answered \in BOOLEAN :
           call' = [name |-> "search", node |-> node, pool |-> leastUsedNode,
                    err |-> IF node = Null THEN "Error: No available nodes"
                            ELSE IF answered THEN Null ELSE "Error: No results found"]
      /\ out' = IF node = Null THEN <<>>
                ELSE <<[kind |-> "request", node |-> node, path |-> "/loadtracks"]>>
      /\ UNCHANGED <<nodes, connected, cpu, players, resolving>>

\* Manager.decodeTracks(tracks): the request goes to this.nodes.first(), the
\* first Node of the pool in insertion order.
DecodeTracks ==
  LET node == First(nodes)
  IN  /\ node # Null => calls[node] < MaxCalls
      /\ calls' = IF node = Null THEN calls ELSE [calls EXCEPT ![node] = @ + 1]
      /\ \E answered \in BOOLEAN :
           call' = [name |-> "decodeTracks", node |-> node, pool |-> leastUsedNode,
                    err |-> IF node = Null THEN "Error: No available nodes"
                            ELSE IF answered THEN Null
                            ELSE "Error: No data returned from query."]
      /\ out' = IF node = Null THEN <<>>
                ELSE <<[kind |-> "request", node |-> node, path |-> "/decodetracks"]>>
      /\ UNCHANGED <<nodes, connected, cpu, players, resolving>>

(***************************************************************************)
(* Session operations                                                      *)
(***************************************************************************)
\* PlayerOptions; volume is <<>> when the option is absent.
Options(g, voice, node, volume) ==
  [guild |-> g, voiceChannel |-> voice, textChannel |-> Null, node |-> node,
   volume |-> volume, selfMute |-> FALSE, selfDeafen |-> FALSE]

\* Without the registry test: a Player is constructed whatever the registry holds.
createAlwaysConstructs(o) ==
  LET r == construct(o)
  IN  [result |-> IF r.err # Null THEN "error" ELSE "created", r |-> r]

\* Manager.create(options) and new Player(options): both return the Player
\* already registered for options.guild, and construct one otherwise.
create(o) ==
  IF o.guild \in DOMAIN players
    THEN [result |-> "existing", r |-> Ret(players[o.guild], <<>>)]
  ELSE LET r == construct(o)
       IN  [result |-> IF r.err # Null THEN "error" ELSE "created", r |-> r]

Create(via, o) ==
  /\ via \in {"Manager.create", "new Player"}
  /\ LET c == create(o)
     IN  /\ players' = IF c.result = "error" THEN players ELSE WithKey(players, o.guild, c.r.p)
         /\ out' = c.r.out
         /\ call' = [name |-> "create", via |-> via, guild |-> o.guild, options |-> o,
                     result |-> c.result, err |-> c.r.err]
  /\ UNCHANGED <<nodes, connected, calls, cpu, resolving>>

SetVolume(g, v) == Registered(g) /\ Method(g, "setVolume", v, setVolume(players[g], v))

SetEQ(g, items) == Registered(g) /\ Method(g, "setEQ", items, setEQ(players[g], items))

ClearEQ(g) == Registered(g) /\ Method(g, "clearEQ", Null, clearEQ(players[g]))

SetTrackRepeat(g, repeat) ==
  Registered(g) /\ Method(g, "setTrackRepeat", repeat, setTrackRepeat(players[g], repeat))

SetQueueRepeat(g, repeat) ==
  Registered(g) /\ Method(g, "setQueueRepeat", repeat, setQueueRepeat(players[g], repeat))

Pause(g, flag) == Registered(g) /\ Method(g, "pause", flag, pause(players[g], flag))

Connect(g) == Registered(g) /\ Method(g, "connect", Null, connect(players[g]))

Disconnect(g) == Registered(g) /\ Method(g, "disconnect", Null, disconnect(players[g]))

\* player.queue.push(track): the Queue is an array of pending entries.
QueuePush(g, t) ==
  /\ Registered(g)
  /\ Len(players[g].queue.list) < MaxQueue
  /\ Method(g, "queue.push", t,
            Ret([players[g] EXCEPT !.queue.list = Append(@, t)], <<>>))

Stop(g, amount) == Registered(g) /\ Method(g, "stop", amount, stop(players[g], amount))

Seek(g, position) == Registered(g) /\ Method(g, "seek", position, seek(players[g], position))

SetVoiceChannel(g, channel) ==
  Registered(g) /\ Method(g, "setVoiceChannel", channel, setVoiceChannel(players[g], channel))

\* destroy(disconnect): call.player is the Player object as the call left it.
Destroy(g, disconnectFlag) ==
  /\ Registered(g)
  /\ g \notin DOMAIN resolving
  /\ LET r == destroy(players[g], disconnectFlag)
     IN  /\ players' = Without(players, g)
         /\ out' = r.out
         /\ call' = [name |-> "destroy", guild |-> g, arg |-> disconnectFlag,
                     player |-> r.p, err |-> Null]
  /\ UNCHANGED <<nodes, connected, calls, cpu, resolving>>

\* The parity of the number of consecutive failed resolutions that the step
\* named name ends: each failure is a step of its own, with its own
\* trackError event, also when it leaves the Player as it was.
Attempt(name) ==
  IF name # "play.rejected" THEN 0
  ELSE IF call.name = "play.rejected" THEN 1 - call.attempt ELSE 1

\* A play call reached its first await or its end.
PlayStep(g, name, arg, r) ==
  /\ players' = [players EXCEPT ![g] = r.p]
  /\ out' = r.out
  /\ resolving' = IF r.wait THEN WithKey(resolving, g, r.options) ELSE Without(resolving, g)
  /\ call' = [name |-> name, guild |-> g, arg |-> arg, err |-> r.err, wait |-> r.wait,
              attempt |-> Attempt(name)]
  /\ UNCHANGED <<nodes, connected, calls, cpu>>

\* play(optionsOrTrack); one play call per Player is in flight at a time.
Play(g, arg) ==
  /\ Registered(g)
  /\ g \notin DOMAIN resolving
  /\ LET r == play(players[g], arg)
     IN  PlayStep(g, "play", arg, r @@ [options |-> IF arg = PlayOpts THEN PlayOpts ELSE NoOpts])

\* TrackUtils.getClosestTrack returned the track t.
PlayResolved(g, t) ==
  /\ g \in DOMAIN resolving
  /\ PlayStep(g, "play.resolved", t,
              playResolved(players[g], t, resolving[g]) @@ [options |-> resolving[g]])

\* TrackUtils.getClosestTrack threw.
PlayRejected(g) ==
  /\ g \in DOMAIN resolving
  /\ PlayStep(g, "play.rejected", Null, playRejected(players[g]) @@ [options |-> NoOpts])

\* Manager.updateVoiceState(data)
UpdateVoiceState(data) ==
  /\ IF routed(data)
       THEN LET g == data.d.guild_id
                u == updateVoiceState(players[g], data.d)
            IN  /\ players' = [players EXCEPT ![g] = u.r.p]
                /\ out' = u.r.out
                /\ call' = [name |-> "updateVoiceState", data |-> data, accepted |-> u.accepted]
     ELSE /\ UNCHANGED players
          /\ out' = <<>>
          /\ call' = [name |-> "updateVoiceState", data |-> data, accepted |-> FALSE]
  /\ UNCHANGED <<nodes, connected, calls, cpu, resolving>>

(***************************************************************************)
(* Inputs                                                                  *)
(***************************************************************************)
Volumes == {-5, 250, 5000}

Gains == {0, 25}

\* Band indices handed to setEQ: inside 0..14, just past the end, negative.
BandInputs == {0, 14, 15, -1}

EQItems ==
  {Band(0, g) : g \in Gains} \cup {Band(b, 25) : b \in BandInputs \ {0}}
    \cup {[keys |-> {"band"}, band |-> 0, gain |-> 0]}

EQArgs == UNION {[1..n -> EQItems] : n \in 0..MaxEQArgs}

\* stop(), stop(0), stop(1), and amounts up to one past the longest queue.
StopArgs == {<<>>} \cup {<<n>> : n \in 0..(MaxQueue + 1)}

\* Positions below zero, inside both durations, between them, and past both.
SeekArgs == {NaN, Num(-10), Num(3), Num(50), Num(500000)}

ChannelArgs == {NotStr, Str(""), Str("7"), Str("8")}

VoicePackets ==
  {Packet(t, u) :
     t \in {Null, "VOICE_SERVER_UPDATE", "GUILD_CREATE"},
     u \in {ServerUpdate(g, "tok") : g \in Guilds}
             \cup {StateUpdate(g, usr, sid, ch) :
                     g \in Guilds, usr \in {ClientId, OtherUser},
                     sid \in SessionIds, ch \in Channels \cup {Null}}
             \cup {OtherUpdate(G123)}}

(***************************************************************************)
(* Specifications.  Next is every operation on every input; the others     *)
(* are Next restricted to the operations and inputs of one protocol.       *)
(***************************************************************************)
NodeEvents(ids) ==
  \/ \E n \in ids : CreateNode(n)
  \/ \E n \in ids : NodeConnect(n)
  \/ \E n \in ids : NodeDisconnect(n)

Next ==
  \/ NodeEvents(NodeIds)
  \/ \E n \in NodeIds, c \in CpuValues : NodeStats(n, c)
  \/ \E n \in NodeIds : DestroyNode(n)
  \/ Search
  \/ DecodeTracks
  \/ \E via \in {"Manager.create", "new Player"}, g \in Guilds \cup {BadGuild},
        v \in Channels \cup {Null}, n \in NodeIds \cup {Null},
        vol \in {<<>>} \cup {<<x>> : x \in Volumes} : Create(via, Options(g, v, n, vol))
  \/ \E g \in Guilds, v \in Volumes : SetVolume(g, v)
  \/ \E g \in Guilds, items \in EQArgs : SetEQ(g, items)
  \/ \E g \in Guilds : ClearEQ(g)
  \/ \E g \in Guilds, b \in {Bool(TRUE), Bool(FALSE), NotBool} : SetTrackRepeat(g, b)
  \/ \E g \in Guilds, b \in {Bool(TRUE), Bool(FALSE), NotBool} : SetQueueRepeat(g, b)
  \/ \E g \in Guilds, b \in {Bool(TRUE), Bool(FALSE), NotBool} : Pause(g, b)
  \/ \E g \in Guilds : Connect(g)
  \/ \E g \in Guilds : Disconnect(g)
  \/ \E g \in Guilds, t \in Tracks : QueuePush(g, t)
  \/ \E g \in Guilds, a \in StopArgs : Stop(g, a)
  \/ \E g \in Guilds, a \in SeekArgs : Seek(g, a)
  \/ \E g \in Guilds, c \in ChannelArgs : SetVoiceChannel(g, c)
  \/ \E g \in Guilds, d \in BOOLEAN : Destroy(g, d)
  \/ \E g \in Guilds, a \in Tracks \cup {Undefined, PlayOpts} : Play(g, a)
  \/ \E g \in Guilds, t \in ResolvedTracks : PlayResolved(g, t)
  \/ \E g \in Guilds : PlayRejected(g)
  \/ \E d \in VoicePackets : UpdateVoiceState(d)

Spec == Init /\ [][Next]_vars

\* Node selection by CPU load, and the Node a new Player is given.
NextLoad ==
  \/ NodeEvents(NodeIds)
  \/ \E n \in NodeIds, c \in CpuValues : NodeStats(n, c)
  \/ \E n \in NodeIds : DestroyNode(n)
  \/ \E n \in {Null, "A"} : Create("new Player", Options(G123, Null, n, <<>>))
  \/ Destroy(G123, TRUE)

SpecLoad == Init /\ [][NextLoad]_vars

\* Node selection by request count.
NextUsed ==
  \/ NodeEvents(NodeIds)
  \/ \E n \in NodeIds : DestroyNode(n)
  \/ Search
  \/ DecodeTracks

SpecUsed == Init /\ [][NextUsed]_vars

\* The voice-credential merge of one Player.
NextVoice ==
  \/ NodeEvents({"A"})
  \/ \E v \in {Null, "7"} : Create("Manager.create", Options(G123, v, Null, <<>>))
  \/ QueuePush(G123, "T1")
  \/ \E b \in {Bool(TRUE), Bool(FALSE)} : Pause(G123, b)
  \/ \E d \in VoicePackets : UpdateVoiceState(d)

SpecVoice == Init /\ [][NextVoice]_vars

\* Equalizer and repeat configuration of one Player.
NextControl ==
  \/ NodeEvents({"A"})
  \/ Create("Manager.create", Options(G123, Null, Null, <<>>))
  \/ \E items \in EQArgs : SetEQ(G123, items)
  \/ ClearEQ(G123)
  \/ \E b \in {Bool(TRUE), Bool(FALSE), NotBool} : SetTrackRepeat(G123, b)
  \/ \E b \in {Bool(TRUE), Bool(FALSE), NotBool} : SetQueueRepeat(G123, b)

SpecControl == Init /\ [][NextControl]_vars

\* Creation, connection, playback and destruction of Players on two Nodes.
NextSession ==
  \/ NodeEvents({"A", "B"})
  \/ \E via \in {"Manager.create", "new Player"}, v \in {Null, "7"},
        n \in {Null, "A", "C"}, vol \in {<<>>, <<5000>>} :
          Create(via, Options(G123, v, n, vol))
  \/ \E g \in {G456, BadGuild} : Create("Manager.create", Options(g, Null, Null, <<>>))
  \/ SetVolume(G123, 250)
  \/ Connect(G123)
  \/ \E a \in {"T1", Undefined} : Play(G123, a)
  \/ \E g \in Guilds, d \in BOOLEAN : Destroy(g, d)

SpecSession == Init /\ [][NextSession]_vars

\* Skipping and seeking in the queue of one Player.
NextQueue ==
  \/ NodeEvents({"A"})
  \/ Create("Manager.create", Options(G123, Null, Null, <<>>))
  \/ \E t \in ResolvedTracks : QueuePush(G123, t)
  \/ \E a \in ResolvedTracks \cup {Undefined, PlayOpts} : Play(G123, a)
  \/ \E a \in StopArgs : Stop(G123, a)
  \/ \E a \in SeekArgs : Seek(G123, a)

SpecQueue == Init /\ [][NextQueue]_vars

\* Playing unresolved tracks: resolution and its failure.
NextResolve ==
  \/ NodeEvents({"A"})
  \/ Create("Manager.create", Options(G123, Null, Null, <<>>))
  \/ \E t \in Tracks : QueuePush(G123, t)
  \/ \E a \in {"U1", "T1", Undefined} : Play(G123, a)
  \/ \E t \in ResolvedTracks : PlayResolved(G123, t)
  \/ PlayRejected(G123)
  \/ \E a \in {<<>>, <<2>>} : Stop(G123, a)

SpecResolve == Init /\ [][NextResolve]_vars

\* The await of a play call settles: TrackUtils.getClosestTrack returns a
\* track or throws.
Settle == (\E t \in ResolvedTracks : PlayResolved(G123, t)) \/ PlayRejected(G123)

\* SpecResolve where every pending resolution eventually settles, one way or
\* the other.
SpecResolveLive == SpecResolve /\ WF_vars(Settle)

\* Voice connection, disconnection and destruction of one Player.
NextConnect ==
  \/ NodeEvents({"A"})
  \/ \E v \in {Null, "7"} : Create("Manager.create", Options(G123, v, Null, <<>>))
  \/ QueuePush(G123, "T1")
  \/ Play(G123, "T1")
  \/ \E b \in {Bool(TRUE), Bool(FALSE), NotBool} : Pause(G123, b)
  \/ Connect(G123)
  \/ Disconnect(G123)
  \/ \E c \in ChannelArgs : SetVoiceChannel(G123, c)
  \/ \E u \in {ServerUpdate(G123, "tok")}
               \cup {StateUpdate(G123, ClientId, "s1", ch) : ch \in {"8", Null}} :
       UpdateVoiceState(Packet(Null, u))
  \/ \E d \in BOOLEAN : Destroy(G123, d)

SpecConnect == Init /\ [][NextConnect]_vars

(***************************************************************************)
(* Properties                                                              *)
(***************************************************************************)
ConnectedSet == {n \in NodeIds : InPool(n) /\ connected[n]}

NoDuplicates(s) == \A i, j \in 1..Len(s) : s[i] = s[j] => i = j

\* The last call constructed a Player whose Node came from leastLoadNodes.
CreatedByLoad ==
  /\ call.name = "create"
  /\ call.result = "created"
  /\ ~(call.options.node # Null /\ InPool(call.options.node))

\* C6: leastLoadNodes is exactly the connected Nodes of the pool, each once,
\* in ascending order of load, a Node without CPU statistics counting as load
\* 0: no Node of the result comes after a Node of strictly higher load.  A
\* Player just constructed without a usable node option holds the first Node
\* of the result, a connected Node of minimal load.
C6_LeastLoadAscending ==
  LET r == leastLoadNodes
  IN  /\ {r[i] : i \in 1..Len(r)} = ConnectedSet
      /\ NoDuplicates(r)
      /\ \A i, j \in 1..Len(r) : i < j => Load(r[i]) <= Load(r[j])
      /\ \A n \in ConnectedSet : ~cpu[n].present => Load(n) = 0
      /\ CreatedByLoad =>
           /\ players[call.guild].node = r[1]
           /\ players[call.guild].node \in ConnectedSet
           /\ \A n \in ConnectedSet : Load(players[call.guild].node) <= Load(n)

\* Three connected Nodes, registered in the order 90%, 10%, no statistics, and
\* a Player just constructed on the first of leastLoadNodes.
C6_Witness ==
  /\ CreatedByLoad
  /\ Len(nodes) = 3
  /\ ConnectedSet = NodeIds
  /\ cpu[nodes[1]] = [present |-> TRUE, systemLoad |-> 900, cores |-> 1]
  /\ cpu[nodes[2]] = [present |-> TRUE, systemLoad |-> 100, cores |-> 1]
  /\ cpu[nodes[3]] = NoCpu
  /\ leastLoadNodes = <<nodes[3], nodes[2], nodes[1]>>
  /\ players[G123].node = nodes[3]

\* C7: leastUsedNode is the connected Nodes in ascending order of calls, and
\* the Node a search request went to had, when it was taken, a calls counter
\* minimal among the connected Nodes.
C7_SearchTakesLeastUsed ==
  LET r == leastUsedNode
  IN  /\ \A i, j \in 1..Len(r) : i < j => calls[r[i]] <= calls[r[j]]
      /\ (call.name = "search" /\ call.node # Null) =>
           /\ call.node \in ConnectedSet
           /\ \A n \in ConnectedSet \ {call.node} : calls[call.node] - 1 <= calls[n]

\* C8: at most one of trackRepeat and queueRepeat is true; right after
\* setTrackRepeat(true) trackRepeat is true and queueRepeat false, after
\* setQueueRepeat(true) the reverse, and after either with false both are false.
C8_RepeatExclusive ==
  \A g \in DOMAIN players :
    LET p == players[g]
    IN  /\ ~(p.trackRepeat /\ p.queueRepeat)
        /\ (call.name = "setTrackRepeat" /\ call.guild = g /\ call.arg = Bool(TRUE)) =>
             (p.trackRepeat /\ ~p.queueRepeat /\ call.err = Null)
        /\ (call.name = "setQueueRepeat" /\ call.guild = g /\ call.arg = Bool(TRUE)) =>
             (p.queueRepeat /\ ~p.trackRepeat /\ call.err = Null)
        /\ (call.name \in {"setTrackRepeat", "setQueueRepeat"} /\ call.guild = g
              /\ call.arg = Bool(FALSE)) =>
             (~p.trackRepeat /\ ~p.queueRepeat /\ call.err = Null)

\* setTrackRepeat(true) has just returned on a Player.
C8_Witness ==
  /\ call.name = "setTrackRepeat"
  /\ call.arg = Bool(TRUE)
  /\ players[call.guild].trackRepeat
  /\ ~players[call.guild].queueRepeat

\* The gains an argument list leaves at index i of an array that had old there.
RECURSIVE Overwritten(_, _, _)
Overwritten(old, items, i) ==
  IF items = <<>> THEN old
  ELSE Overwritten(IF Head(items).band = i THEN Head(items).gain ELSE old, Tail(items), i)

WellFormedEQ(items) ==
  items # <<>> /\ \A k \in 1..Len(items) : ValidBandShape(items[k])

InRangeEQ(items) == \A k \in 1..Len(items) : items[k].band \in 0..(BandCount - 1)

\* C9: a setEQ call whose band indices all lie in 0..14 leaves a 15-element
\* gain array equal to the array before with the given indices overwritten,
\* and sends one equalizer operation carrying the 15 bands; clearEQ leaves 15
\* zeros and sends the same shape.
C9_SetEQOverwrites ==
  [][\A g \in DOMAIN players :
       /\ (call'.name = "setEQ" /\ call'.guild = g /\ WellFormedEQ(call'.arg)
             /\ InRangeEQ(call'.arg)) =>
            LET b == players'[g].bands.arr
                eq == NodeOps(out', "equalizer")
            IN  /\ Len(b) = BandCount
                /\ \A i \in 1..BandCount :
                     /\ i <= Len(players[g].bands.arr)
                     /\ b[i] = Overwritten(players[g].bands.arr[i], call'.arg, i - 1)
                /\ Len(out') = 1 /\ Len(eq) = 1
                /\ eq[1].payload.bands = b
                /\ Len(eq[1].payload.bands) = BandCount
       /\ (call'.name = "clearEQ" /\ call'.guild = g) =>
            LET eq == NodeOps(out', "equalizer")
            IN  /\ players'[g].bands.arr = [i \in 1..BandCount |-> 0]
                /\ Len(out') = 1 /\ Len(eq) = 1
                /\ eq[1].payload.bands = [i \in 1..BandCount |-> 0]]_vars

\* C10: a setEQ call with a band index outside 0..14 fails, leaves the gain
\* array as it was, with 15 slots, and sends nothing; every equalizer
\* operation sent carries exactly 15 bands.
C10_OutOfRangeRejected ==
  [][\A g \in DOMAIN players :
       /\ (call'.name = "setEQ" /\ call'.guild = g /\ WellFormedEQ(call'.arg)
             /\ ~InRangeEQ(call'.arg)) =>
            /\ call'.err # Null
            /\ players'[g].bands = players[g].bands
            /\ Len(players'[g].bands.arr) = BandCount
            /\ out' = <<>>
       /\ \A k \in 1..Len(out') :
            (out'[k].kind = "node" /\ out'[k].op = "equalizer") =>
              Len(out'[k].payload.bands) = BandCount]_vars

\* Both credential fragments are on the record.
BothFragments(vs) == {"event", "sessionId"} \subseteq DOMAIN vs

\* The last call was updateVoiceState with a fragment the handler took for a
\* registered Player.
Delivered(c) == c.name = "updateVoiceState" /\ c.accepted

\* C1: whichever fragment comes second, the delivery that completes the pair
\* (voice-server fragment and own-user voice-state fragment with a channel id)
\* sends exactly one merged voice-update operation to the Player's Node, and a
\* delivery that leaves the pair incomplete sends none.
C1_MergeOrderIndependent ==
  [][Delivered(call') =>
       LET g == call'.data.d.guild_id
           sent == NodeOps(out', "voiceUpdate")
       IN  /\ (BothFragments(players'[g].voiceState) /\ ~BothFragments(players[g].voiceState)) =>
                /\ Len(sent) = 1
                /\ sent[1].node = players[g].node
                /\ sent[1].payload = players'[g].voiceState
           /\ ~BothFragments(players'[g].voiceState) => sent = <<>>]_vars

\* The last call delivered an own-user voice-state fragment without channel id.
ExternalDisconnect(c) ==
  /\ Delivered(c)
  /\ "session_id" \in c.data.d.keys
  /\ c.data.d.user_id = ClientId
  /\ ~Truthy(c.data.d.channel_id)

\* What C2 says of every flag but paused.
DisconnectUpdate(p, p1, o) ==
  /\ Len(Events(o, "playerDisconnect")) = 1
  /\ Events(o, "playerDisconnect")[1].args = <<p.voiceChannel>>
  /\ p1.voiceChannel = Null
  /\ "sessionId" \notin DOMAIN p1.voiceState
  /\ "event" \notin DOMAIN p1.voiceState
  /\ NodeOps(o, "voiceUpdate") = <<>>
  /\ \A k \in 1..Len(o) : o[k].kind = "node" => o[k].op = "pause"

\* C2 as stated: the external disconnect leaves the Player paused.
C2_ForcePaused ==
  [][ExternalDisconnect(call') =>
       LET g == call'.data.d.guild_id
       IN  /\ DisconnectUpdate(players[g], players'[g], out')
           /\ players'[g].paused]_vars

\* C2, amended: an own-user voice-state fragment without channel id emits one
\* playerDisconnect carrying the old voice channel, clears the voice channel
\* and the credential record and sends no voice-update operation; it calls
\* pause(true), which pauses the Player (one pause operation, playing false)
\* when the queue's totalSize is not 0 and the Player was not paused, and leaves
\* paused and playing as they were otherwise.
C2_DisconnectUpdate ==
  [][ExternalDisconnect(call') =>
       LET g == call'.data.d.guild_id
           p == players[g]
           p1 == players'[g]
           pausing == ~p.paused /\ totalSize(p.queue) > 0
       IN  /\ DisconnectUpdate(p, p1, out')
           /\ p1.paused = (p.paused \/ totalSize(p.queue) > 0)
           /\ p1.playing = (p.playing /\ ~pausing)
           /\ Len(NodeOps(out', "pause")) = (IF pausing THEN 1 ELSE 0)
           /\ p1.queue = p.queue /\ p1.node = p.node]_vars

\* An external disconnect has just been handled for a Player that had both
\* fragments' worth of state to lose and something queued: it is paused, with
\* an empty credential record and no voice channel.
C2_Witness ==
  /\ ExternalDisconnect(call)
  /\ Len(Events(out, "playerDisconnect")) = 1
  /\ Events(out, "playerDisconnect")[1].args = <<"7">>
  /\ Len(NodeOps(out, "pause")) = 1
  /\ players[G123].paused
  /\ players[G123].voiceState = <<>>

\* C3: a create (Manager.create or new Player) for a guild id of the registry
\* returns the registered Player, changes no Player and not the registry, emits
\* no playerCreate and sends nothing; a create that does emit playerCreate is
\* for a guild id that was not registered, so no guild id gets a second Player.
C3_CreateExistingUnchanged ==
  [][call'.name = "create" =>
       /\ call'.guild \in DOMAIN players =>
            /\ call'.result = "existing"
            /\ call'.err = Null
            /\ players' = players
            /\ out' = <<>>
       /\ Events(out', "playerCreate") # <<>> =>
            /\ call'.guild \notin DOMAIN players
            /\ DOMAIN players' = DOMAIN players \cup {call'.guild}
            /\ \A g \in DOMAIN players : players'[g] = players[g]]_vars

\* A create with a volume option and a voice channel has just returned the
\* registered Player of guild "123", whose volume and channel are others.
C3_Witness ==
  /\ call.name = "create"
  /\ call.result = "existing"
  /\ call.options.volume = <<5000>>
  /\ call.options.voiceChannel = "7"
  /\ players[G123].volume = 250
  /\ players[G123].voiceChannel = Null
  /\ out = <<>>

\* C4: a create for an unregistered guild id, naming no node, while no Node of
\* the pool is connected throws 'No available nodes.': the registry is
\* unchanged, no playerCreate is emitted and nothing is sent.
C4_CreateWithoutNodeFails ==
  [][(/\ call'.name = "create"
      /\ call'.guild \in Guilds \ DOMAIN players
      /\ call'.options.node = Null
      /\ ConnectedSet = {}) =>
       /\ call'.err = "RangeError: No available nodes."
       /\ players' = players
       /\ out' = <<>>]_vars

\* A create has just failed for want of a connected Node, the pool holding a
\* Node that is not connected.
C4_Witness ==
  /\ call.name = "create"
  /\ call.options.node = Null
  /\ call.err = "RangeError: No available nodes."
  /\ nodes # <<>>
  /\ ConnectedSet = {}
  /\ G123 \notin DOMAIN players

\* C5 as stated: a create for guild "123" while no Node is connected yields a
\* registered Player (whose connect() then succeeds).
C5_CreatedWithoutNode ==
  [][(/\ call'.name = "create"
      /\ call'.guild = G123
      /\ G123 \notin DOMAIN players
      /\ ConnectedSet = {}) =>
       (call'.result = "created" /\ G123 \in DOMAIN players')]_vars

\* C5, amended: a create for guild "123" while no Node is connected yields a
\* Player exactly when the node option names a Node of the pool, and fails with
\* 'No available nodes.' otherwise; every Player holds a Node; connect() on a
\* Player with a voice channel succeeds with one gateway join whatever its
\* Node's connection; play(track) with a resolved track hands exactly one play
\* operation, carrying the Player's guild id and the track's handle, to the
\* Player's Node.
C5_EndToEnd ==
  [][/\ (/\ call'.name = "create"
         /\ call'.guild = G123
         /\ G123 \notin DOMAIN players
         /\ ConnectedSet = {}) =>
          IF call'.options.node # Null /\ InPool(call'.options.node)
            THEN /\ call'.result = "created"
                 /\ players'[G123].node = call'.options.node
          ELSE /\ call'.err = "RangeError: No available nodes."
               /\ G123 \notin DOMAIN players'
     /\ \A g \in DOMAIN players' : players'[g].node \in NodeIds
     /\ (call'.name = "connect" /\ players[call'.guild].voiceChannel # Null) =>
          /\ call'.err = Null
          /\ players'[call'.guild].state = "CONNECTED"
          /\ Len(GatewayOps(out')) = 1
          /\ GatewayOps(out')[1].channel_id = players[call'.guild].voiceChannel
     /\ (call'.name = "play" /\ call'.arg \in ResolvedTracks) =>
          /\ call'.err = Null
          /\ Len(AllNodeOps(out')) = 1
          /\ AllNodeOps(out')[1].op = "play"
          /\ AllNodeOps(out')[1].node = players[call'.guild].node
          /\ AllNodeOps(out')[1].payload.guildId = call'.guild
          /\ AllNodeOps(out')[1].payload.track = TrackData[call'.arg].track]_vars

\* The Player of guild "123", created while its Node was not connected and
\* connected to a voice channel, has just been handed play(track) after the
\* Node connected: one play operation for guild "123" went to that Node.
C5_Witness ==
  /\ call.name = "play"
  /\ call.guild = G123
  /\ call.arg = "T1"
  /\ players[G123].state = "CONNECTED"
  /\ players[G123].node = "B"
  /\ connected["B"] /\ ~connected["A"]
  /\ Len(NodeOps(out, "play")) = 1
  /\ NodeOps(out, "play")[1].node = "B"
  /\ NodeOps(out, "play")[1].payload.guildId = "123"

\* The stop operation of the Player p, as sent to its Node.
StopOp(p) == NodeSend(p.node, [op |-> "stop", guildId |-> p.guild])

\* C11 as stated: stop(n) with any n greater than the length of the pending
\* queue fails, leaves the Player unchanged and sends nothing.
C11_StopPastQueueFails ==
  [][(call'.name = "stop" /\ call'.arg # <<>>
        /\ call'.arg[1] > Len(players[call'.guild].queue.list)) =>
       /\ call'.err # Null
       /\ players'[call'.guild] = players[call'.guild]
       /\ out' = <<>>]_vars

\* C11: stop(n) with n > 1 and n greater than the length of the pending queue
\* fails with an error, leaves the queue unchanged and sends nothing to the
\* Node; stop(n) with 1 < n <= length removes exactly the first n - 1 pending
\* entries, changes nothing else and sends exactly one stop operation; stop()
\* and stop(1) remove nothing and send exactly one stop operation, whatever
\* the length of the queue.
C11_Stop ==
  [][call'.name = "stop" =>
       LET g == call'.guild
           p == players[g]
           list == p.queue.list
           a == call'.arg
       IN  /\ (a # <<>> /\ a[1] > 1 /\ a[1] > Len(list)) =>
                /\ call'.err # Null
                /\ players'[g] = p
                /\ out' = <<>>
           /\ (a # <<>> /\ a[1] > 1 /\ a[1] <= Len(list)) =>
                /\ call'.err = Null
                /\ players'[g] = [p EXCEPT !.queue.list = SubSeq(list, a[1], Len(list))]
                /\ Len(players'[g].queue.list) = Len(list) - (a[1] - 1)
                /\ out' = <<StopOp(p)>>
           /\ (a = <<>> \/ a = <<1>>) =>
                /\ call'.err = Null
                /\ players'[g] = p
                /\ out' = <<StopOp(p)>>]_vars

\* stop(2) has just removed the first of two pending entries and sent the
\* stop operation.
C11_Witness ==
  /\ call.name = "stop"
  /\ call.arg = <<2>>
  /\ call.err = Null
  /\ players[call.guild].queue.list = <<"T2">>
  /\ out = <<StopOp(players[call.guild])>>

\* C12: on a Player whose current track has duration D, seek(p) for a number
\* p sets the position to min(max(p, 0), D), changes nothing else and sends
\* exactly one seek operation carrying that position, which lies in [0, D];
\* without a current track seek changes nothing and sends nothing.
C12_SeekClamps ==
  [][call'.name = "seek" =>
       LET g == call'.guild
           p == players[g]
           a == call'.arg
       IN  /\ p.queue.current = Null =>
                /\ call'.err = Null
                /\ players'[g] = p
                /\ out' = <<>>
           /\ (p.queue.current # Null /\ ~a.nan) =>
                LET D == Duration[p.queue.current]
                    c == Min(Max(a.v, 0), D)
                IN  /\ call'.err = Null
                    /\ players'[g] = [p EXCEPT !.position = c]
                    /\ out' = <<NodeSend(p.node, [op |-> "seek", guildId |-> g,
                                                  position |-> c])>>
                    /\ 0 <= players'[g].position
                    /\ players'[g].position <= D]_vars

\* seek(500000) on a current track of duration 100000 has just set the
\* position to 100000 and sent it.
C12_Witness ==
  /\ call.name = "seek"
  /\ call.arg = Num(500000)
  /\ players[call.guild].queue.current = "T1"
  /\ players[call.guild].position = 100000
  /\ Len(NodeOps(out, "seek")) = 1
  /\ NodeOps(out, "seek")[1].payload.position = 100000

\* The writes of the state field made by the last call, in order.
StateTrail(o) == SelectSeq(o, LAMBDA e : e.kind = "state")

\* C13: after destroy() returns, with or without the disconnect flag and with
\* or without a voice channel, the state of the Player is DESTROYING; and no
\* other operation writes DESTROYING or leaves a registered Player in it.
C13_DestroyingTerminal ==
  [][/\ call'.name = "destroy" => call'.player.state = "DESTROYING"
     /\ call'.name # "destroy" =>
          /\ \A i \in 1..Len(StateTrail(out')) : StateTrail(out')[i].to # "DESTROYING"
          /\ \A g \in DOMAIN players' : players'[g].state # "DESTROYING"]_vars

\* disconnected -> connecting -> connected -> disconnecting -> disconnected
StateEdges ==
  {<<"DISCONNECTED", "CONNECTING">>, <<"CONNECTING", "CONNECTED">>,
   <<"CONNECTED", "DISCONNECTING">>, <<"DISCONNECTING", "DISCONNECTED">>}

\* C14: over connect(), disconnect(), setVoiceChannel() and updateVoiceState,
\* every write of the state field follows an edge of the cycle disconnected ->
\* connecting -> connected -> disconnecting -> disconnected; in particular
\* CONNECTING is written only over DISCONNECTED and DISCONNECTING only over
\* CONNECTED.
C14_StateEdges ==
  [][call'.name \in {"connect", "disconnect", "setVoiceChannel", "updateVoiceState"} =>
       /\ \A i \in 1..Len(StateTrail(out')) :
            <<StateTrail(out')[i].from, StateTrail(out')[i].to>> \in StateEdges
       /\ \A g \in DOMAIN players \cap DOMAIN players' :
            players'[g].state # players[g].state => StateTrail(out') # <<>>]_vars

\* The positions in o of the effects that satisfy Test.
Positions(o, Test(_)) == {i \in 1..Len(o) : Test(o[i])}

IsLeave(e) == e.kind = "gateway" /\ e.op = 4 /\ e.channel_id = Null

IsDestroyOp(e) == e.kind = "node" /\ e.op = "destroy"

\* C15: destroy() sends exactly one destroy operation carrying the Player's
\* guildId to the Player's Node, emits playerDestroy once, and leaves the
\* guild absent from the registry.  With disconnect requested and a voice
\* channel set, exactly one gateway voice-leave payload for the guild is sent
\* and it precedes the destroy operation; with disconnect = false nothing is
\* sent to the gateway.
C15_Destroy ==
  [][call'.name = "destroy" =>
       LET g == call'.guild
           p == players[g]
           o == out'
       IN  /\ NodeOps(o, "destroy") = <<NodeSend(p.node, [op |-> "destroy", guildId |-> g])>>
           /\ Events(o, "playerDestroy") = <<Emit("playerDestroy", g, <<>>)>>
           /\ g \notin DOMAIN players'
           /\ (call'.arg /\ p.voiceChannel # Null) =>
                /\ Len(GatewayOps(o)) = 1
                /\ GatewayOps(o)[1].guild_id = g
                /\ IsLeave(GatewayOps(o)[1])
                /\ \A i \in Positions(o, IsLeave), j \in Positions(o, IsDestroyOp) : i < j
           /\ ~call'.arg => GatewayOps(o) = <<>>]_vars

\* destroy(true) on a Player with a voice channel has just returned: one
\* voice-leave payload and one destroy operation were sent, and the guild is
\* gone from the registry.
C15_Witness ==
  /\ call.name = "destroy"
  /\ call.arg = TRUE
  /\ Len(GatewayOps(out)) = 1
  /\ Len(NodeOps(out, "destroy")) = 1
  /\ call.guild \notin DOMAIN players

\* C16 as stated: disconnect() without a voice channel changes and sends
\* nothing; with one, the Player ends paused, with no voice channel and in
\* state DISCONNECTED, and exactly one voice-leave payload was sent.
C16_DisconnectPauses ==
  [][call'.name = "disconnect" =>
       LET g == call'.guild
           p == players[g]
       IN  /\ p.voiceChannel = Null => (players'[g] = p /\ out' = <<>>)
           /\ p.voiceChannel # Null =>
                /\ players'[g].paused
                /\ ~players'[g].playing
                /\ GatewayOps(out') = <<GatewaySend(g, Null, FALSE, FALSE)>>
                /\ players'[g].voiceChannel = Null
                /\ players'[g].state = "DISCONNECTED"]_vars

\* C16: disconnect() on a Player whose voice channel is null changes nothing
\* and sends nothing (no gateway payload, no Node operation).  Otherwise it
\* calls pause(true) - the Player becomes paused and one pause operation is
\* sent when the queue's totalSize is not 0 and the Player was not paused,
\* and paused, playing are left alone otherwise - sends exactly one gateway
\* voice-leave payload (op 4, channel_id null) for the Player's guild, sets
\* the voice channel to null and ends in state DISCONNECTED; nothing else
\* changes.
C16_Disconnect ==
  [][call'.name = "disconnect" =>
       LET g == call'.guild
           p == players[g]
           pausing == totalSize(p.queue) # 0 /\ ~p.paused
       IN  /\ call'.err = Null
           /\ p.voiceChannel = Null => (players'[g] = p /\ out' = <<>>)
           /\ p.voiceChannel # Null =>
                /\ players'[g] = [p EXCEPT !.voiceChannel = Null,
                                           !.state = "DISCONNECTED",
                                           !.paused = IF pausing THEN TRUE ELSE @,
                                           !.playing = IF pausing THEN FALSE ELSE @]
                /\ GatewayOps(out') = <<GatewaySend(g, Null, FALSE, FALSE)>>
                /\ AllNodeOps(out') =
                     IF pausing
                       THEN <<NodeSend(p.node, [op |-> "pause", guildId |-> g,
                                                pause |-> TRUE])>>
                     ELSE <<>>
                /\ Events(out', "playerDisconnect") = <<>>]_vars

\* disconnect() has just returned on a Player that had a voice channel and a
\* queued track: it is paused, without a voice channel, DISCONNECTED, and one
\* pause operation and one voice-leave payload were sent.
C16_Witness ==
  /\ call.name = "disconnect"
  /\ players[call.guild].paused
  /\ players[call.guild].voiceChannel = Null
  /\ players[call.guild].state = "DISCONNECTED"
  /\ Len(NodeOps(out, "pause")) = 1
  /\ Len(GatewayOps(out)) = 1
  /\ IsLeave(GatewayOps(out)[1])

\* C17: pause(flag) for a boolean flag changes nothing and sends nothing when
\* flag equals paused or the queue's totalSize is 0; otherwise it sets paused
\* to flag and playing to its negation, changes nothing else, and sends
\* exactly one pause operation carrying flag.  After every step, no
\* registered Player has playing and paused both true.
C17_Pause ==
  [][/\ (call'.name = "pause" /\ call'.arg.type = "boolean") =>
          LET g == call'.guild
              p == players[g]
              flag == call'.arg.v
          IN  /\ call'.err = Null
              /\ (p.paused = flag \/ totalSize(p.queue) = 0) =>
                   (players'[g] = p /\ out' = <<>>)
              /\ ~(p.paused = flag \/ totalSize(p.queue) = 0) =>
                   /\ players'[g] = [p EXCEPT !.paused = flag, !.playing = ~flag]
                   /\ out' = <<NodeSend(p.node, [op |-> "pause", guildId |-> g,
                                                 pause |-> flag])>>
     /\ \A g \in DOMAIN players' : ~(players'[g].playing /\ players'[g].paused)]_vars

\* pause(false) has just resumed a paused Player whose queue holds only a
\* current track: playing, not paused, one pause operation carrying false.
C17_Witness ==
  /\ call.name = "pause"
  /\ call.arg = Bool(FALSE)
  /\ players[call.guild].playing
  /\ ~players[call.guild].paused
  /\ players[call.guild].queue.current # Null
  /\ players[call.guild].queue.list = <<>>
  /\ Len(NodeOps(out, "pause")) = 1
  /\ NodeOps(out, "pause")[1].payload.pause = FALSE

\* C18: play(track) with a resolved track returns without error; previous
\* becomes the former current track when there was one and is left alone
\* otherwise, current becomes the given track, nothing else changes, and
\* exactly one operation is sent: a play operation to the Player's Node
\* carrying the track's handle and the Player's guildId.  play() without a
\* track argument on a Player without a current track fails with an error,
\* changes nothing and sends nothing.
C18_Play ==
  [][call'.name = "play" =>
       LET g == call'.guild
           p == players[g]
           q == p.queue
           a == call'.arg
       IN  /\ a \in ResolvedTracks =>
                /\ call'.err = Null
                /\ ~call'.wait
                /\ players'[g] =
                     [p EXCEPT !.queue.current = a,
                               !.queue.previous = IF q.current # Null THEN q.current ELSE @]
                /\ Len(out') = 1
                /\ out'[1].kind = "node"
                /\ out'[1].op = "play"
                /\ out'[1].node = p.node
                /\ out'[1].payload.guildId = g
                /\ out'[1].payload.track = TrackData[a].track
           /\ (a \notin Tracks /\ q.current = Null) =>
                /\ call'.err # Null
                /\ players'[g] = p
                /\ out' = <<>>]_vars

\* play(T2) has just replaced the current track T1: T1 is previous, T2 is
\* current, and one play operation with the handle of T2 was sent.
C18_Witness ==
  /\ call.name = "play"
  /\ call.arg = "T2"
  /\ players[call.guild].queue.current = "T2"
  /\ players[call.guild].queue.previous = "T1"
  /\ Len(NodeOps(out, "play")) = 1
  /\ NodeOps(out, "play")[1].payload.track = "h2"

\* C19: when the resolution of an unresolved current track fails, exactly one
\* trackError event is emitted, carrying that track, and no play operation is
\* sent for it.  With a non-empty pending queue the first pending entry
\* becomes the current track and play is attempted on it: one play operation
\* with its handle is sent when it is resolved, and its resolution is awaited
\* when it is not.  With an empty pending queue the current track stays,
\* nothing is sent and no resolution is awaited.
C19_ResolutionFailure ==
  [][call'.name = "play.rejected" =>
       LET g == call'.guild
           p == players[g]
           failed == p.queue.current
           list == p.queue.list
       IN  /\ isUnresolvedTrack(failed)
           /\ Events(out', "trackError") = <<Emit("trackError", g, <<failed>>)>>
           /\ out'[1] = Emit("trackError", g, <<failed>>)
           /\ list # <<>> =>
                /\ players'[g].queue.current = Head(list)
                /\ isUnresolvedTrack(Head(list)) =>
                     (call'.wait /\ AllNodeOps(out') = <<>>)
                /\ ~isUnresolvedTrack(Head(list)) =>
                     /\ ~call'.wait
                     /\ Len(AllNodeOps(out')) = 1
                     /\ AllNodeOps(out')[1].op = "play"
                     /\ AllNodeOps(out')[1].node = p.node
                     /\ AllNodeOps(out')[1].payload.guildId = g
                     /\ AllNodeOps(out')[1].payload.track = TrackData[Head(list)].track
           /\ list = <<>> =>
                /\ players'[g] = p
                /\ AllNodeOps(out') = <<>>
                /\ ~call'.wait
                /\ g \notin DOMAIN resolving']_vars

\* The resolution of the current track U1 has just failed with T1 first in
\* the pending queue: trackError for U1, T1 is current, one play operation
\* with the handle of T1.
C19_Witness ==
  /\ call.name = "play.rejected"
  /\ Events(out, "trackError") = <<Emit("trackError", call.guild, <<"U1">>)>>
  /\ players[call.guild].queue.current = "T1"
  /\ players[call.guild].queue.previous = "U1"
  /\ Len(NodeOps(out, "play")) = 1
  /\ NodeOps(out, "play")[1].payload.track = "h1"

\* A voice-state fragment (session id, no token) of another user.
ForeignFragment(d) ==
  "token" \notin d.keys /\ "session_id" \in d.keys /\ d.user_id # ClientId

\* C20: updateVoiceState with a voice-state fragment whose user id is not
\* the client id, or with any fragment for a guild that has no registered
\* Player, changes no Player (voiceState, voice channel, paused, playing and
\* state included), emits no event and sends nothing.
C20_ForeignFragmentIgnored ==
  [][call'.name = "updateVoiceState" =>
       LET d == call'.data.d
       IN  (ForeignFragment(d) \/ d.guild_id \notin DOMAIN players) =>
             /\ players' = players
             /\ out' = <<>>
             /\ ~call'.accepted]_vars

\* A fragment of another user that leaves the voice channel has just been
\* handed to updateVoiceState for a registered Player in a voice channel with
\* a queued track: the Player still has its channel and is not paused.
C20_Witness ==
  /\ call.name = "updateVoiceState"
  /\ call.data.t = Null
  /\ ForeignFragment(call.data.d)
  /\ call.data.d.channel_id = Null
  /\ call.data.d.guild_id \in DOMAIN players
  /\ players[call.data.d.guild_id].voiceChannel = "7"
  /\ totalSize(players[call.data.d.guild_id].queue) > 0
  /\ ~players[call.data.d.guild_id].paused
  /\ "sessionId" \in DOMAIN players[call.data.d.guild_id].voiceState
  /\ out = <<>>

\* The requests issued by the last call.
Requests(o) == SelectSeq(o, LAMBDA e : e.kind = "request")

\* C21: search and decodeTracks issue a request only to a connected Node,
\* the first of the least-used selection; with no connected Node both are
\* rejected with the no-available-nodes error and issue no request.
C21_RequestsToConnected ==
  [][call'.name \in {"search", "decodeTracks"} =>
       /\ \A i \in 1..Len(Requests(out')) :
            /\ connected[Requests(out')[i].node]
            /\ Requests(out')[i].node = First(leastUsedNode)
       /\ ConnectedNodes = <<>> =>
            /\ call'.err = "Error: No available nodes"
            /\ Requests(out') = <<>>]_vars

\* C22: every play call terminates: a play call that awaits the resolution
\* of a track eventually completes, having sent a play operation or stopped
\* without one, whatever the pending queue holds and however the resolutions
\* settle.
C22_PlayTerminates ==
  (G123 \in DOMAIN resolving) ~> (G123 \notin DOMAIN resolving)

\* C23: in every reachable state, a registered Player whose state is
\* CONNECTED has a voice channel.
C23_ConnectedHasChannel ==
  \A g \in DOMAIN players :
    players[g].state = "CONNECTED" => players[g].voiceChannel # Null

\* The last call delivered an own-user voice-state fragment
\* with a channel id.
OwnJoin(c) ==
  /\ Delivered(c)
  /\ "session_id" \in c.data.d.keys
  /\ c.data.d.user_id = ClientId
  /\ Truthy(c.data.d.channel_id)

\* C24: the credential record of a registered Player always keeps the op and
\* guildId keys, so that, also after an external disconnect, an own-user
\* voice-state fragment with a channel id delivered once the voice-server
\* fragment is on the record sends exactly one merged voice-update operation
\* to the Player's Node.
C24_MergeRecovers ==
  [][/\ \A g \in DOMAIN players' : {"op", "guildId"} \subseteq DOMAIN players'[g].voiceState
     /\ (OwnJoin(call') /\ "event" \in DOMAIN players[call'.data.d.guild_id].voiceState) =>
          LET g == call'.data.d.guild_id
              sent == NodeOps(out', "voiceUpdate")
          IN  /\ Len(sent) = 1
              /\ sent[1].node = players[g].node]_vars

\* No step changes the Node of a Player that stays registered.
NodePinned ==
  \A g \in DOMAIN players \cap DOMAIN players' : players'[g].node = players[g].node

\* C25 as stated: a Player just constructed holds a Node that is connected at
\* that moment, however the Node was chosen; and no step changes the Node of
\* a registered Player.
C25_AssignedConnected ==
  [][/\ (call'.name = "create" /\ call'.result = "created") =>
          connected[players'[call'.guild].node]
     /\ NodePinned]_vars

\* C25: a Player just constructed holds the Node named by its node option
\* when that Node is in the pool, connected or not, and otherwise the first of
\* leastLoadNodes, a Node connected at that moment; and no step - the Node
\* disconnecting and destroyNode included - changes the Node of a registered
\* Player.
C25_NodePinned ==
  [][/\ (call'.name = "create" /\ call'.result = "created") =>
          LET o == call'.options
              n == players'[call'.guild].node
          IN  /\ InPool(n)
              /\ (o.node # Null /\ InPool(o.node)) => n = o.node
              /\ ~(o.node # Null /\ InPool(o.node)) =>
                   (connected[n] /\ n = First(leastLoadNodes))
     /\ NodePinned]_vars

\* destroyNode has just removed the Node that a registered Player holds while
\* another Node is connected: the Player still holds the removed Node.
C25_Witness ==
  /\ call.name = "destroyNode"
  /\ G123 \in DOMAIN players
  /\ players[G123].node = call.node
  /\ ~InPool(call.node)
  /\ ConnectedNodes # <<>>

====
